---------------------------- MODULE Spec2Model ----------------------------
(***************************************************************************)
(* State-machine model of examples/yolov8/cpp/video.cc (main): the video   *)
(* annotation driver.  One action per step of main; the external calls     *)
(* (init_yolov8_model, cv::VideoCapture, cv::VideoWriter,                  *)
(* inference_yolov8_model) are nondeterministic in their results.          *)
(*                                                                         *)
(* The C float arithmetic of the coordinate mapper (lines 119-129) is      *)
(* modelled bit-exactly: an IEEE-754 binary32 value is a record            *)
(* [m, e] standing for m * 2^e, operations round to nearest, ties to even. *)
(* Class ids, confidences and pixel values are not modelled: no step of    *)
(* main branches on them.                                                  *)
(***************************************************************************)
EXTENDS Integers, Naturals, Sequences, FiniteSets, TLC

(* ------------------------------ bounds -------------------------------- *)

\* frames a source delivers at most before end-of-stream
MaxFrames == 2

\* detections the detector returns at most for one frame
MaxDets == 2

\* small frame and model dimensions range over 1..MaxDim
MaxDim == 5

\* command lines have 1..MaxArgc words (argv[0] included)
MaxArgc == 4

(* ------------------------- program constants -------------------------- *)

\* line 15: argc != 3
ExpectedArgc == 3

\* line 140: cv::Point(x1, y1 - 10)
LabelOffset == 10

\* lines 19, 34, 47: return -1
ExitFailure == 0 - 1

\* line 166: return 0
ExitSuccess == 0

(* -------------------- IEEE-754 binary32 arithmetic -------------------- *)

RECURSIVE Pow2(_)
Pow2(n) == IF n <= 0 THEN 1 ELSE 2 * Pow2(n - 1)

RECURSIVE BitLen(_)
BitLen(x) == IF x = 0 THEN 0 ELSE 1 + BitLen(x \div 2)

\* scale a and b by powers of two until b <= a < 2b; a/b = (a'/b') * 2^k
RECURSIVE Norm(_, _, _)
Norm(a, b, k) ==
    IF a < b THEN Norm(2 * a, b, k - 1)
    ELSE IF a >= 2 * b THEN Norm(a, 2 * b, k + 1)
    ELSE [a |-> a, b |-> b, k |-> k]

\* n further quotient bits of r/b appended to the mantissa m (long division)
RECURSIVE DivBits(_, _, _, _)
DivBits(r, b, m, n) ==
    IF n = 0 THEN [m |-> m, r |-> r]
    ELSE IF 2 * r >= b THEN DivBits(2 * r - b, b, 2 * m + 1, n - 1)
    ELSE DivBits(2 * r, b, 2 * m, n - 1)

\* mutant of FloatDiv: the (float) cast is missing, the division is integral
FloatDivIntegral(a, b) == [m |-> a \div b, e |-> 0]

\* (float)a / b for positive ints a, b < 2^24: the quotient rounded to a
\* 24-bit mantissa, ties to even
FloatDiv(a, b) ==
    LET n == Norm(a, b, 0)
        q == DivBits(n.a - n.b, n.b, 1, 23)
        up == (2 * q.r > n.b) \/ (2 * q.r = n.b /\ q.m % 2 = 1)
        m == IF up THEN q.m + 1 ELSE q.m
    IN  IF m = Pow2(24) THEN [m |-> Pow2(23), e |-> n.k - 22]
        ELSE [m |-> m, e |-> n.k - 23]

\* n * f for an int 0 <= n < 2^11 converted to float (exactly) and a
\* positive float f: the exact product n * f.m, held in two 12-bit-aligned
\* limbs, rounded to a 24-bit mantissa, ties to even
FloatMulNat(n, f) ==
    LET mh == f.m \div 4096
        ml == f.m % 4096
        B  == n * ml
        hi == n * mh + (B \div 4096)
        lo == B % 4096
        d  == BitLen(hi) - 12
    IN  IF n = 0 THEN [m |-> 0, e |-> 0]
        ELSE IF d <= 0 THEN [m |-> hi * 4096 + lo, e |-> f.e]
        ELSE LET kept == hi * Pow2(12 - d) + (lo \div Pow2(d))
                 rem  == lo % Pow2(d)
                 half == Pow2(d - 1)
                 up   == (rem > half) \/ (rem = half /\ kept % 2 = 1)
             IN  [m |-> IF up THEN kept + 1 ELSE kept, e |-> f.e + d]

\* (int)f for a non-negative float below 2^31: truncation
FloatToInt(f) ==
    IF f.e >= 0 THEN f.m * Pow2(f.e)
    ELSE IF 0 - f.e > 30 THEN 0
    ELSE f.m \div Pow2(0 - f.e)

\* mutant of ScaleEdge: the product is rounded to the nearest integer
\* instead of truncated
ScaleEdgeRounded(v, scale) ==
    LET f == FloatMulNat(IF v >= 0 THEN v ELSE 0 - v, scale)
        n == IF f.e >= 0 THEN f.m * Pow2(f.e)
             ELSE IF 0 - f.e > 30 THEN 0
             ELSE (f.m + Pow2(0 - f.e - 1)) \div Pow2(0 - f.e)
    IN  IF v >= 0 THEN n ELSE 0 - n

\* lines 126-129: (int)(edge * scale); the product of an int and a float
\* is a float, the cast truncates toward zero
ScaleEdge(v, scale) ==
    IF v >= 0 THEN FloatToInt(FloatMulNat(v, scale))
    ELSE 0 - FloatToInt(FloatMulNat(0 - v, scale))

Min(a, b) == IF a < b THEN a ELSE b

Max(a, b) == IF a > b THEN a ELSE b

\* mutant of Clamp: the - 1 is applied to the result of std::min
ClampMinusOne(x, n) == Max(0, Min(x, n) - 1)

\* mutant of Clamp: the upper limit is n instead of n - 1
ClampOffByOne(x, n) == Max(0, Min(x, n))

\* lines 131-134: std::max(0, std::min(x, n - 1))
Clamp(x, n) == Max(0, Min(x, n - 1))


(* ------------------------------ inputs -------------------------------- *)

\* native frame sizes <<width, height>> a source may report
FrameDims == {<<1, 1>>, <<3, 2>>, <<1920, 1080>>}

\* model input sizes <<model_width, model_height>> a model may have
ModelDims == {<<2, 3>>, <<640, 640>>}

Box(l, t, r, b) == [left |-> l, top |-> t, right |-> r, bottom |-> b]

\* model-space boxes the detector may return for a model of input size
\* mw x mh: the full extent, a box sticking out on every side, a box on the
\* top-left corner, and two fixed boxes
Boxes(mw, mh) ==
    { Box(0, 0, mw, mh),
      Box(0 - 3, 0 - 2, mw + 5, mh + 4),
      Box(0, 1, 1, 2),
      Box(100, 100, 200, 200),
      Box(630, 630, 645, 645) }

RECURSIVE SeqsUpTo(_, _)
SeqsUpTo(S, n) ==
    IF n = 0 THEN {<<>>}
    ELSE LET shorter == SeqsUpTo(S, n - 1)
         IN  shorter \cup {Append(q, x) : q \in shorter, x \in S}

\* object_detect_result_list values: od_results.count = Len, results[i].box
DetLists(mw, mh) == SeqsUpTo(Boxes(mw, mh), MaxDets)

(* ------------------------------- state -------------------------------- *)

VARIABLES
    pc,           \* position in main
    argc,         \* line 13
    ret,          \* line 30, 97
    exit_code,    \* value returned by main, meaningful when pc = "done"
    app_ctx,      \* line 25: [inited, model_width, model_height]
    cap,          \* line 37: [opened, width, height, total, pos]
    frame_width,  \* line 50
    frame_height, \* line 51
    writer,       \* line 55: [opened, frames]; frames = the file's content
    frame,        \* line 64: [cols, rows]; empty when cols = 0
    frame_count,  \* line 68
    src_image,    \* line 66: [width, height]
    od_results,   \* line 65: sequence of boxes
    scale_x,      \* line 119
    scale_y,      \* line 120
    i,            \* line 123
    display_img,  \* line 81: [rects, labels, fps] drawn on the copy
    stdout,       \* count of each status line printed
    report,       \* lines 104-115: the report lines of the latest frame
    calls,        \* count of calls: [pull, infer, report]
    acquired,     \* resources acquired, in order
    released,     \* resources released, in order
    loop_exit,    \* how the while loop ended: "none", "eos", "infer_error"
    data,         \* the pixel buffer each cv::Mat or pointer refers to
    heap,         \* pixel buffers: [of, writes], the frame a buffer holds
                  \* and the operations that wrote it since it was filled
    since_start,  \* line 71: the stages run since start was taken
    fps           \* line 146: the stages inside end - start

vars == <<pc, argc, ret, exit_code, app_ctx, cap, frame_width, frame_height,
          writer, frame, frame_count, src_image, od_results, scale_x, scale_y,
          i, display_img, stdout, report, calls, acquired, released, loop_exit,
          data, heap, since_start, fps>>

NoFloat == [m |-> 0, e |-> 0]

EmptyFrame == [cols |-> 0, rows |-> 0]

\* mutant of CloneData: display_img = frame shares the frame's buffer
ShareData(src) == src

\* line 81: clone() copies the pixels of buffer src into a buffer of its own
CloneData(src) == "copy"

\* line 81: frame.clone(), nothing drawn on it yet
Clone(f) == [cols |-> f.cols, rows |-> f.rows, rects |-> <<>>,
             labels |-> <<>>, fps |-> FALSE]

BlankImage == Clone(EmptyFrame)

NoOutput ==
    [usage |-> 0, init_failed |-> 0, open_failed |-> 0, warning |-> 0,
     saving |-> 0, eos |-> 0, eos_total |-> 0 - 1, infer_failed |-> 0,
     fail_frame |-> 0 - 1, saved |-> 0]

NoBuffer == [of |-> 0, writes |-> {}]

\* no cv::Mat holds pixels yet
NoData == [frame |-> "none", display_img |-> "none", resized |-> "none",
           src_image |-> "none", written |-> "none"]

NoHeap == [decoded |-> NoBuffer, copy |-> NoBuffer, resized |-> NoBuffer]

NoReport == [frame |-> 0, count |-> 0, lines |-> <<>>]

Say(line) == [stdout EXCEPT ![line] = @ + 1]

Init ==
    /\ pc = "args"
    /\ argc \in 1..MaxArgc
    /\ ret = 0
    /\ exit_code = ExitSuccess
    /\ app_ctx = [inited |-> FALSE, model_width |-> 0, model_height |-> 0]
    /\ cap = [opened |-> FALSE, width |-> 0, height |-> 0, total |-> 0, pos |-> 0]
    /\ frame_width = 0
    /\ frame_height = 0
    /\ writer = [opened |-> FALSE, frames |-> <<>>]
    /\ frame = EmptyFrame
    /\ frame_count = 0
    /\ src_image = [width |-> 0, height |-> 0]
    /\ od_results = <<>>
    /\ scale_x = NoFloat
    /\ scale_y = NoFloat
    /\ i = 0
    /\ display_img = BlankImage
    /\ stdout = NoOutput
    /\ report = NoReport
    /\ calls = [pull |-> 0, infer |-> 0, report |-> 0]
    /\ acquired = <<>>
    /\ released = <<>>
    /\ loop_exit = "none"
    /\ data = NoData
    /\ heap = NoHeap
    /\ since_start = {}
    /\ fps = {}

(* --------------------------- initialisation --------------------------- *)

\* mutant of ArgcOk: extra arguments are tolerated
ArgcAtLeast(n) == n >= ExpectedArgc

\* line 15: the negation of argc != 3
ArgcOk(n) == n = ExpectedArgc

\* lines 15-23
ParseArgs ==
    /\ pc = "args"
    /\ IF ArgcOk(argc)
       THEN /\ pc' = "init_post"
            /\ UNCHANGED <<stdout, exit_code>>
       ELSE /\ stdout' = Say("usage")
            /\ exit_code' = ExitFailure
            /\ pc' = "done"
    /\ UNCHANGED <<argc, ret, app_ctx, cap, frame_width, frame_height, writer,
                   frame, frame_count, src_image, od_results, scale_x, scale_y,
                   i, display_img, report, calls, acquired, released, loop_exit>>
    /\ UNCHANGED <<data, heap, since_start, fps>>

\* line 28
InitPostProcess ==
    /\ pc = "init_post"
    /\ acquired' = Append(acquired, "post_process")
    /\ pc' = "init_model"
    /\ UNCHANGED <<argc, ret, exit_code, app_ctx, cap, frame_width, frame_height,
                   writer, frame, frame_count, src_image, od_results, scale_x,
                   scale_y, i, display_img, stdout, report, calls, released,
                   loop_exit>>
    /\ UNCHANGED <<data, heap, since_start, fps>>

\* lines 32-34: what main releases when init_yolov8_model fails
ModelInitFailureCleanup == <<"post_process">>

\* lines 30-35
InitModel ==
    /\ pc = "init_model"
    /\ \E r \in {0, 0 - 1} :
         /\ ret' = r
         /\ IF r # 0
            THEN /\ stdout' = Say("init_failed")
                 /\ released' = released \o ModelInitFailureCleanup
                 /\ exit_code' = ExitFailure
                 /\ pc' = "done"
                 /\ UNCHANGED <<app_ctx, acquired>>
            ELSE /\ \E d \in ModelDims :
                      app_ctx' = [inited |-> TRUE, model_width |-> d[1],
                                  model_height |-> d[2]]
                 /\ acquired' = Append(acquired, "model")
                 /\ pc' = "open_cap"
                 /\ UNCHANGED <<stdout, released, exit_code>>
    /\ UNCHANGED <<argc, cap, frame_width, frame_height, writer, frame,
                   frame_count, src_image, od_results, scale_x, scale_y, i,
                   display_img, report, calls, loop_exit>>
    /\ UNCHANGED <<data, heap, since_start, fps>>

\* mutant of SourceOpenFailureCleanup: the model context is leaked
SourceOpenFailureLeak == <<"post_process">>

\* lines 44-46: what main releases when the source does not open
SourceOpenFailureCleanup == <<"model", "post_process">>

\* lines 37-48
OpenCap ==
    /\ pc = "open_cap"
    /\ \E ok \in BOOLEAN :
         IF ok
         THEN /\ \E d \in FrameDims, n \in 0..MaxFrames :
                   cap' = [opened |-> TRUE, width |-> d[1], height |-> d[2],
                           total |-> n, pos |-> 0]
              /\ acquired' = Append(acquired, "cap")
              /\ pc' = "props"
              /\ UNCHANGED <<stdout, released, exit_code, app_ctx>>
         ELSE /\ stdout' = Say("open_failed")
              /\ released' = released \o SourceOpenFailureCleanup
              /\ app_ctx' = [app_ctx EXCEPT !.inited = FALSE]
              /\ exit_code' = ExitFailure
              /\ pc' = "done"
              /\ UNCHANGED <<cap, acquired>>
    /\ UNCHANGED <<argc, ret, frame_width, frame_height, writer, frame,
                   frame_count, src_image, od_results, scale_x, scale_y, i,
                   display_img, report, calls, loop_exit>>
    /\ UNCHANGED <<data, heap, since_start, fps>>

\* lines 50-51
ReadProps ==
    /\ pc = "props"
    /\ frame_width' = cap.width
    /\ frame_height' = cap.height
    /\ pc' = "open_writer"
    /\ UNCHANGED <<argc, ret, exit_code, app_ctx, cap, writer, frame,
                   frame_count, src_image, od_results, scale_x, scale_y, i,
                   display_img, stdout, report, calls, acquired, released,
                   loop_exit>>
    /\ UNCHANGED <<data, heap, since_start, fps>>

\* lines 55-62
OpenWriter ==
    /\ pc = "open_writer"
    /\ \E ok \in BOOLEAN :
         /\ writer' = [opened |-> ok, frames |-> <<>>]
         /\ IF ~ok
            THEN /\ stdout' = Say("warning")
                 /\ UNCHANGED acquired
            ELSE /\ stdout' = Say("saving")
                 /\ acquired' = Append(acquired, "writer")
    /\ pc' = "pull"
    /\ UNCHANGED <<argc, ret, exit_code, app_ctx, cap, frame_width,
                   frame_height, frame, frame_count, src_image, od_results,
                   scale_x, scale_y, i, display_img, report, calls, released,
                   loop_exit>>
    /\ UNCHANGED <<data, heap, since_start, fps>>

(* ----------------------------- streaming ------------------------------ *)

\* line 73: cap >> frame; the source hands out its frames in order and an
\* empty frame once they are used up
Grab(c) ==
    IF c.pos < c.total THEN [cols |-> c.width, rows |-> c.height]
    ELSE EmptyFrame

\* mutant of PullFrame: the end-of-stream line prints the number of pulls
PullFramePrintsPulls ==
    /\ pc = "pull"
    /\ calls' = [calls EXCEPT !.pull = @ + 1]
    /\ frame' = Grab(cap)
    /\ cap' = [cap EXCEPT !.pos = IF cap.pos < cap.total THEN @ + 1 ELSE @]
    /\ IF frame'.cols = 0 \/ frame'.rows = 0
       THEN /\ stdout' = [Say("eos") EXCEPT !.eos_total = calls'.pull]
            /\ loop_exit' = "eos"
            /\ pc' = "close_writer"
       ELSE /\ pc' = "count"
            /\ UNCHANGED <<stdout, loop_exit>>
    /\ UNCHANGED <<argc, ret, exit_code, app_ctx, frame_width, frame_height,
                   writer, frame_count, src_image, od_results, scale_x,
                   scale_y, i, display_img, report, acquired, released>>
    /\ data' = [data EXCEPT !.frame = IF cap.pos < cap.total THEN "decoded"
                                       ELSE "none"]
    /\ heap' = IF cap.pos < cap.total
               THEN [heap EXCEPT !.decoded = [of |-> cap.pos + 1,
                                              writes |-> {"decode"}]]
               ELSE heap
    /\ since_start' = {"acquire"}
    /\ UNCHANGED fps

\* lines 71-77
PullFrame ==
    /\ pc = "pull"
    /\ calls' = [calls EXCEPT !.pull = @ + 1]
    /\ frame' = Grab(cap)
    /\ cap' = [cap EXCEPT !.pos = IF cap.pos < cap.total THEN @ + 1 ELSE @]
    /\ IF frame'.cols = 0 \/ frame'.rows = 0
       THEN /\ stdout' = [Say("eos") EXCEPT !.eos_total = frame_count]
            /\ loop_exit' = "eos"
            /\ pc' = "close_writer"
       ELSE /\ pc' = "count"
            /\ UNCHANGED <<stdout, loop_exit>>
    /\ UNCHANGED <<argc, ret, exit_code, app_ctx, frame_width, frame_height,
                   writer, frame_count, src_image, od_results, scale_x,
                   scale_y, i, display_img, report, acquired, released>>
    /\ data' = [data EXCEPT !.frame = IF cap.pos < cap.total THEN "decoded"
                                       ELSE "none"]
    /\ heap' = IF cap.pos < cap.total
               THEN [heap EXCEPT !.decoded = [of |-> cap.pos + 1,
                                              writes |-> {"decode"}]]
               ELSE heap
    /\ since_start' = {"acquire"}
    /\ UNCHANGED fps

\* mutant of CountFrame: the increment of line 79 is missing
CountFrameNoIncrement ==
    /\ pc = "count"
    /\ display_img' = Clone(frame)
    /\ pc' = "preprocess"
    /\ UNCHANGED <<argc, ret, exit_code, app_ctx, cap, frame_width,
                   frame_height, writer, frame, frame_count, src_image,
                   od_results, scale_x, scale_y, i, stdout, report, calls,
                   acquired, released, loop_exit>>
    /\ data' = [data EXCEPT !.display_img = CloneData(data.frame)]
    /\ heap' = [heap EXCEPT ![data'.display_img] =
                  [of |-> heap[data.frame].of,
                   writes |-> IF data'.display_img = data.frame
                              THEN heap[data.frame].writes ELSE {"clone"}]]
    /\ since_start' = since_start \cup {"clone"}
    /\ UNCHANGED fps

\* lines 79-81
CountFrame ==
    /\ pc = "count"
    /\ frame_count' = frame_count + 1
    /\ display_img' = Clone(frame)
    /\ pc' = "preprocess"
    /\ UNCHANGED <<argc, ret, exit_code, app_ctx, cap, frame_width,
                   frame_height, writer, frame, src_image, od_results, scale_x,
                   scale_y, i, stdout, report, calls, acquired, released,
                   loop_exit>>
    /\ data' = [data EXCEPT !.display_img = CloneData(data.frame)]
    /\ heap' = [heap EXCEPT ![data'.display_img] =
                  [of |-> heap[data.frame].of,
                   writes |-> IF data'.display_img = data.frame
                              THEN heap[data.frame].writes ELSE {"clone"}]]
    /\ since_start' = since_start \cup {"clone"}
    /\ UNCHANGED fps

\* mutant of Preprocess: the detector input is not refilled from the new
\* frame
PreprocessStale ==
    /\ pc = "preprocess"
    /\ pc' = "infer"
    /\ since_start' = since_start \cup {"preprocess"}
    /\ UNCHANGED <<argc, ret, exit_code, app_ctx, cap, frame_width,
                   frame_height, writer, frame, frame_count, src_image,
                   od_results, scale_x, scale_y, i, display_img, stdout,
                   report, calls, acquired, released, loop_exit, data, heap,
                   fps>>

\* lines 84-94
Preprocess ==
    /\ pc = "preprocess"
    /\ src_image' = [width |-> app_ctx.model_width,
                     height |-> app_ctx.model_height]
    /\ pc' = "infer"
    /\ UNCHANGED <<argc, ret, exit_code, app_ctx, cap, frame_width,
                   frame_height, writer, frame, frame_count, od_results,
                   scale_x, scale_y, i, display_img, stdout, report, calls,
                   acquired, released, loop_exit>>
    /\ data' = [data EXCEPT !.resized = "resized", !.src_image = "resized"]
    /\ heap' = [heap EXCEPT !.resized = [of |-> heap[data.frame].of,
                                         writes |-> {"resize", "cvtColor"}]]
    /\ since_start' = since_start \cup {"preprocess"}
    /\ UNCHANGED fps

\* mutant of AfterInferError: the failed frame is skipped (continue)
AfterInferErrorSkip == "pull"

\* lines 98-101: where main goes when inference_yolov8_model fails
AfterInferError == "close_writer"

\* lines 97-101
Inference ==
    /\ pc = "infer"
    /\ calls' = [calls EXCEPT !.infer = @ + 1]
    /\ \E r \in {0, 0 - 1} :
         /\ ret' = r
         /\ IF r # 0
            THEN /\ stdout' = [Say("infer_failed") EXCEPT !.fail_frame = frame_count]
                 /\ loop_exit' = "infer_error"
                 /\ pc' = AfterInferError
                 /\ UNCHANGED od_results
            ELSE /\ od_results' \in DetLists(app_ctx.model_width,
                                             app_ctx.model_height)
                 /\ pc' = "report"
                 /\ UNCHANGED <<stdout, loop_exit>>
    /\ UNCHANGED <<argc, exit_code, app_ctx, cap, frame_width, frame_height,
                   writer, frame, frame_count, src_image, scale_x, scale_y, i,
                   display_img, report, acquired, released>>
    /\ since_start' = since_start \cup {"inference"}
    /\ UNCHANGED <<data, heap, fps>>

DetLine(b) == [kind |-> "det", box |-> b]

NoObjectsLine == [kind |-> "none", box |-> Box(0, 0, 0, 0)]

\* mutant of ReportLines: the test of lines 113-115 is missing
ReportLinesNoMarker(dets) == [k \in 1..Len(dets) |-> DetLine(dets[k])]

\* lines 105-115: the lines printed under the frame's header
ReportLines(dets) ==
    IF Len(dets) = 0 THEN <<NoObjectsLine>>
    ELSE [k \in 1..Len(dets) |-> DetLine(dets[k])]

\* lines 104-115
Report ==
    /\ pc = "report"
    /\ report' = [frame |-> frame_count, count |-> Len(od_results),
                  lines |-> ReportLines(od_results)]
    /\ calls' = [calls EXCEPT !.report = @ + 1]
    /\ pc' = "scale"
    /\ UNCHANGED <<argc, ret, exit_code, app_ctx, cap, frame_width,
                   frame_height, writer, frame, frame_count, src_image,
                   od_results, scale_x, scale_y, i, display_img, stdout,
                   acquired, released, loop_exit>>
    /\ since_start' = since_start \cup {"report"}
    /\ UNCHANGED <<data, heap, fps>>

\* lines 119-120, and i = 0 of line 123
ComputeScale ==
    /\ pc = "scale"
    /\ scale_x' = FloatDiv(frame.cols, app_ctx.model_width)
    /\ scale_y' = FloatDiv(frame.rows, app_ctx.model_height)
    /\ i' = 0
    /\ pc' = "draw"
    /\ UNCHANGED <<argc, ret, exit_code, app_ctx, cap, frame_width,
                   frame_height, writer, frame, frame_count, src_image,
                   od_results, display_img, stdout, report, calls, acquired,
                   released, loop_exit>>
    /\ since_start' = since_start \cup {"mapping"}
    /\ UNCHANGED <<data, heap, fps>>

\* mutant of MapBox: x1 is taken from box.right and x2 from box.left
MapBoxSwapped(b, sx, sy, cols, rows) ==
    [x1 |-> Clamp(ScaleEdge(b.right, sx), cols),
     y1 |-> Clamp(ScaleEdge(b.top, sy), rows),
     x2 |-> Clamp(ScaleEdge(b.left, sx), cols),
     y2 |-> Clamp(ScaleEdge(b.bottom, sy), rows)]

\* lines 126-134: scale, truncate, clamp
MapBox(b, sx, sy, cols, rows) ==
    [x1 |-> Clamp(ScaleEdge(b.left, sx), cols),
     y1 |-> Clamp(ScaleEdge(b.top, sy), rows),
     x2 |-> Clamp(ScaleEdge(b.right, sx), cols),
     y2 |-> Clamp(ScaleEdge(b.bottom, sy), rows)]

\* mutant of LabelAnchor: the label is put below the top edge
LabelAnchorBelow(r) == [x |-> r.x1, y |-> r.y1 + LabelOffset]

\* line 140: cv::Point(x1, y1 - 10)
LabelAnchor(r) == [x |-> r.x1, y |-> r.y1 - LabelOffset]

\* mutant of DrawDetection: the list is walked from its last entry
DrawDetectionBackwards ==
    /\ pc = "draw"
    /\ i < Len(od_results)
    /\ LET r == MapBox(od_results[Len(od_results) - i], scale_x, scale_y,
                       frame.cols, frame.rows)
       IN  display_img' = [display_img EXCEPT
                             !.rects = Append(@, r),
                             !.labels = Append(@, LabelAnchor(r))]
    /\ i' = i + 1
    /\ heap' = [heap EXCEPT ![data.display_img].writes =
                                  @ \cup {"rectangle", "putText"}]
    /\ since_start' = since_start \cup {"mapping", "rendering"}
    /\ UNCHANGED <<pc, argc, ret, exit_code, app_ctx, cap, frame_width,
                   frame_height, writer, frame, frame_count, src_image,
                   od_results, scale_x, scale_y, stdout, report, calls,
                   acquired, released, loop_exit, data, fps>>

\* lines 123-142: one pass of the drawing loop
DrawDetection ==
    /\ pc = "draw"
    /\ i < Len(od_results)
    /\ LET r == MapBox(od_results[i + 1], scale_x, scale_y, frame.cols, frame.rows)
       IN  display_img' = [display_img EXCEPT
                             !.rects = Append(@, r),
                             !.labels = Append(@, LabelAnchor(r))]
    /\ i' = i + 1
    /\ UNCHANGED <<pc, argc, ret, exit_code, app_ctx, cap, frame_width,
                   frame_height, writer, frame, frame_count, src_image,
                   od_results, scale_x, scale_y, stdout, report, calls,
                   acquired, released, loop_exit>>
    /\ heap' = [heap EXCEPT ![data.display_img].writes =
                                  @ \cup {"rectangle", "putText"}]
    /\ since_start' = since_start \cup {"mapping", "rendering"}
    /\ UNCHANGED <<data, fps>>

\* mutant of FpsOverlay: the FPS text is not drawn before the frame is
\* handed to the sink
FpsOverlayMissing ==
    /\ pc = "draw"
    /\ ~(i < Len(od_results))
    /\ pc' = "write"
    /\ UNCHANGED <<argc, ret, exit_code, app_ctx, cap, frame_width,
                   frame_height, writer, frame, frame_count, src_image,
                   od_results, scale_x, scale_y, i, display_img, stdout,
                   report, calls, acquired, released, loop_exit>>
    /\ UNCHANGED <<data, heap, since_start, fps>>

\* lines 123 (loop exit), 145-149
FpsOverlay ==
    /\ pc = "draw"
    /\ ~(i < Len(od_results))
    /\ display_img' = [display_img EXCEPT !.fps = TRUE]
    /\ pc' = "write"
    /\ UNCHANGED <<argc, ret, exit_code, app_ctx, cap, frame_width,
                   frame_height, writer, frame, frame_count, src_image,
                   od_results, scale_x, scale_y, i, stdout, report, calls,
                   acquired, released, loop_exit>>
    /\ fps' = since_start
    /\ heap' = [heap EXCEPT ![data.display_img].writes = @ \cup {"fps_text"}]
    /\ UNCHANGED <<data, since_start>>

\* mutant of WriteFrame: the isOpened() test of line 152 is missing
WriteFrameUnchecked ==
    /\ pc = "write"
    /\ writer' = [writer EXCEPT !.frames = Append(@, frame_count)]
    /\ pc' = "pull"
    /\ UNCHANGED <<argc, ret, exit_code, app_ctx, cap, frame_width,
                   frame_height, frame, frame_count, src_image, od_results,
                   scale_x, scale_y, i, display_img, stdout, report, calls,
                   acquired, released, loop_exit>>
    /\ data' = [data EXCEPT !.written = data.display_img]
    /\ UNCHANGED <<heap, since_start, fps>>

\* lines 152-154
WriteFrame ==
    /\ pc = "write"
    /\ writer' = IF writer.opened
                 THEN [writer EXCEPT !.frames = Append(@, frame_count)]
                 ELSE writer
    /\ pc' = "pull"
    /\ UNCHANGED <<argc, ret, exit_code, app_ctx, cap, frame_width,
                   frame_height, frame, frame_count, src_image, od_results,
                   scale_x, scale_y, i, display_img, stdout, report, calls,
                   acquired, released, loop_exit>>
    /\ data' = IF writer.opened
               THEN [data EXCEPT !.written = data.display_img]
               ELSE data
    /\ UNCHANGED <<heap, since_start, fps>>

(* ------------------------------ cleanup ------------------------------- *)

\* mutant of CloseWriter: the isOpened() test of line 157 is missing
CloseWriterUnchecked ==
    /\ pc = "close_writer"
    /\ writer' = [writer EXCEPT !.opened = FALSE]
    /\ released' = Append(released, "writer")
    /\ stdout' = Say("saved")
    /\ pc' = "release_model"
    /\ UNCHANGED <<argc, ret, exit_code, app_ctx, cap, frame_width,
                   frame_height, frame, frame_count, src_image, od_results,
                   scale_x, scale_y, i, display_img, report, calls, acquired,
                   loop_exit>>
    /\ UNCHANGED <<data, heap, since_start, fps>>

\* lines 157-160
CloseWriter ==
    /\ pc = "close_writer"
    /\ IF writer.opened
       THEN /\ writer' = [writer EXCEPT !.opened = FALSE]
            /\ released' = Append(released, "writer")
            /\ stdout' = Say("saved")
       ELSE UNCHANGED <<writer, released, stdout>>
    /\ pc' = "release_model"
    /\ UNCHANGED <<argc, ret, exit_code, app_ctx, cap, frame_width,
                   frame_height, frame, frame_count, src_image, od_results,
                   scale_x, scale_y, i, display_img, report, calls, acquired,
                   loop_exit>>
    /\ UNCHANGED <<data, heap, since_start, fps>>

\* line 162
ReleaseModel ==
    /\ pc = "release_model"
    /\ app_ctx' = [app_ctx EXCEPT !.inited = FALSE]
    /\ released' = Append(released, "model")
    /\ pc' = "deinit_post"
    /\ UNCHANGED <<argc, ret, exit_code, cap, frame_width, frame_height,
                   writer, frame, frame_count, src_image, od_results, scale_x,
                   scale_y, i, display_img, stdout, report, calls, acquired,
                   loop_exit>>
    /\ UNCHANGED <<data, heap, since_start, fps>>

\* line 163
DeinitPostProcess ==
    /\ pc = "deinit_post"
    /\ released' = Append(released, "post_process")
    /\ pc' = "release_cap"
    /\ UNCHANGED <<argc, ret, exit_code, app_ctx, cap, frame_width,
                   frame_height, writer, frame, frame_count, src_image,
                   od_results, scale_x, scale_y, i, display_img, stdout,
                   report, calls, acquired, loop_exit>>
    /\ UNCHANGED <<data, heap, since_start, fps>>

\* line 164
ReleaseCap ==
    /\ pc = "release_cap"
    /\ cap' = [cap EXCEPT !.opened = FALSE]
    /\ released' = Append(released, "cap")
    /\ pc' = "return"
    /\ UNCHANGED <<argc, ret, exit_code, app_ctx, frame_width, frame_height,
                   writer, frame, frame_count, src_image, od_results, scale_x,
                   scale_y, i, display_img, stdout, report, calls, acquired,
                   loop_exit>>
    /\ UNCHANGED <<data, heap, since_start, fps>>

\* line 166
Return ==
    /\ pc = "return"
    /\ exit_code' = ExitSuccess
    /\ pc' = "done"
    /\ UNCHANGED <<argc, ret, app_ctx, cap, frame_width, frame_height, writer,
                   frame, frame_count, src_image, od_results, scale_x, scale_y,
                   i, display_img, stdout, report, calls, acquired, released,
                   loop_exit>>
    /\ UNCHANGED <<data, heap, since_start, fps>>

Next ==
    \/ ParseArgs
    \/ InitPostProcess
    \/ InitModel
    \/ OpenCap
    \/ ReadProps
    \/ OpenWriter
    \/ PullFrame
    \/ CountFrame
    \/ Preprocess
    \/ Inference
    \/ Report
    \/ ComputeScale
    \/ DrawDetection
    \/ FpsOverlay
    \/ WriteFrame
    \/ CloseWriter
    \/ ReleaseModel
    \/ DeinitPostProcess
    \/ ReleaseCap
    \/ Return

Spec == Init /\ [][Next]_vars

(* ---------------- the coordinate mapper on its own ------------------- *)

\* frame and model sizes <<cols, rows, model_width, model_height>> beyond
\* 1..MaxDim: pairs on which the float product model * (frame / model)
\* falls below frame, and a 1080p frame with a 640x640 model
ExtraDims == {<<1, 7, 41, 23>>, <<6, 3, 37, 47>>, <<1920, 1080, 640, 640>>}

MapDims == ((1..MaxDim) \X (1..MaxDim) \X (1..MaxDim) \X (1..MaxDim)) \cup ExtraDims

MapBoxes(mw, mh) ==
    Boxes(mw, mh) \cup { Box(mw - 1, mh - 1, mw + 1, mh + 1),
                         Box(0 - 1, 0 - 1, 0, 0) }

\* main just before line 119, on the first frame of a one-frame source
\* whose detector returned one box
InitMap ==
    \E d \in MapDims :
      /\ pc = "scale"
      /\ argc = ExpectedArgc
      /\ ret = 0
      /\ exit_code = ExitSuccess
      /\ app_ctx = [inited |-> TRUE, model_width |-> d[3], model_height |-> d[4]]
      /\ cap = [opened |-> TRUE, width |-> d[1], height |-> d[2],
                total |-> 1, pos |-> 1]
      /\ frame_width = d[1]
      /\ frame_height = d[2]
      /\ writer = [opened |-> FALSE, frames |-> <<>>]
      /\ frame = [cols |-> d[1], rows |-> d[2]]
      /\ frame_count = 1
      /\ src_image = [width |-> d[3], height |-> d[4]]
      /\ \E b \in MapBoxes(d[3], d[4]) : od_results = <<b>>
      /\ scale_x = NoFloat
      /\ scale_y = NoFloat
      /\ i = 0
      /\ display_img = Clone(frame)
      /\ stdout = [NoOutput EXCEPT !.warning = 1]
      /\ report = [frame |-> 1, count |-> 1, lines |-> ReportLines(od_results)]
      /\ calls = [pull |-> 1, infer |-> 1, report |-> 1]
      /\ acquired = <<"post_process", "model", "cap">>
      /\ released = <<>>
      /\ loop_exit = "none"
      /\ data = [frame |-> "decoded", display_img |-> CloneData("decoded"),
                 resized |-> "resized", src_image |-> "resized",
                 written |-> "none"]
      /\ heap = [decoded |-> [of |-> 1, writes |-> {"decode"}],
                 copy |-> [of |-> 1, writes |-> {"clone"}],
                 resized |-> [of |-> 1, writes |-> {"resize", "cvtColor"}]]
      /\ since_start = {"acquire", "clone", "preprocess", "inference", "report"}
      /\ fps = {}

NextMap ==
    \/ ComputeScale
    \/ DrawDetection

SpecMap == InitMap /\ [][NextMap]_vars

(* ------------------------------ claims -------------------------------- *)

Range(q) == {q[k] : k \in 1..Len(q)}

NoDuplicates(q) == Cardinality(Range(q)) = Len(q)

Reverse(q) == [k \in 1..Len(q) |-> q[Len(q) + 1 - k]]

\* positions of main after the while loop
DrainPcs == {"close_writer", "release_model", "deinit_post", "release_cap",
             "return", "done"}

\* positions of main inside one iteration, after the frame was counted
FramePcs == {"preprocess", "infer", "report", "scale", "draw", "write"}

\* nothing was drawn on the display copy
Undrawn(img) == img.rects = <<>> /\ img.labels = <<>> /\ ~img.fps

\* the sink was tried and did not open
SinkAbsent == stdout.warning > 0

\* what the drain path has to release, in order
DrainOrder ==
    (IF "writer" \in Range(acquired) THEN <<"writer">> ELSE <<>>)
      \o <<"model", "post_process", "cap">>

\* C1: a run in which the detector failed on some frame terminates with a
\* non-zero exit code, and a terminated run has exit code 0 only if its
\* loop ended by end-of-stream.
C1_ExitCodeTellsFailure ==
    pc = "done" =>
      /\ loop_exit = "infer_error" => exit_code # 0
      /\ exit_code = 0 => loop_exit = "eos"

\* C2: when the sink failed to open, the run enters the loop, nothing is
\* ever written to the sink, the sink is never closed, the warning is
\* printed exactly once, and a run that ends by end-of-stream has acquired,
\* inferred and reported every frame of the source and exits with 0.
C2_SinkFailureIsNotFatal ==
    SinkAbsent =>
      /\ stdout.warning = 1
      /\ stdout.saving = 0
      /\ writer.frames = <<>>
      /\ ~writer.opened
      /\ "writer" \notin Range(released)
      /\ stdout.saved = 0
      /\ pc = "done" => calls.pull >= 1
      /\ (pc = "done" /\ loop_exit = "eos") =>
            /\ exit_code = 0
            /\ cap.pos = cap.total
            /\ frame_count = cap.total
            /\ calls.infer = cap.total
            /\ calls.report = cap.total

C2_Witness ==
    /\ SinkAbsent
    /\ pc = "done"
    /\ loop_exit = "eos"
    /\ cap.total = 2
    /\ calls.report = 2

\* C3: when the model context or the frame source fails to open, the run
\* ends with a non-zero exit code, has pulled no frame, run no inference
\* and opened no sink, and has released exactly what it had acquired, in
\* reverse order of acquisition (the model context only if it was acquired).
C3_InitFailureReleasesInReverse ==
    (pc = "done" /\ (stdout.init_failed > 0 \/ stdout.open_failed > 0)) =>
      /\ exit_code # 0
      /\ calls = [pull |-> 0, infer |-> 0, report |-> 0]
      /\ loop_exit = "none"
      /\ "writer" \notin Range(acquired)
      /\ stdout.warning = 0 /\ stdout.saving = 0
      /\ released = Reverse(acquired)
      /\ stdout.init_failed > 0 => "model" \notin Range(released)
      /\ stdout.open_failed > 0 => released = <<"model", "post_process">>

C3_Witness ==
    /\ pc = "done"
    /\ stdout.open_failed = 1
    /\ acquired = <<"post_process", "model">>
    /\ exit_code = ExitFailure

\* C4: a command line that does not have exactly two positional arguments
\* ends the run with a non-zero exit code and nothing acquired: no
\* post-processing init, no model init, no source open, no sink open.
C4_UsageErrorAcquiresNothing ==
    (argc # 3 /\ pc # "args") =>
      /\ pc = "done"
      /\ exit_code # 0
      /\ stdout.usage = 1
      /\ acquired = <<>>
      /\ ~app_ctx.inited
      /\ ~cap.opened
      /\ ~writer.opened
      /\ calls = [pull |-> 0, infer |-> 0, report |-> 0]

C4_Witness ==
    /\ pc = "done"
    /\ argc = 4
    /\ stdout.usage = 1

\* C5: once the detector has failed on frame K, the run has pulled exactly
\* K frames and inferred K times (no retry, no frame K+1), and frame K has
\* no report, no overlay and no sink write; this stays so until the end.
C5_NoWorkAfterInferError ==
    loop_exit = "infer_error" =>
      LET K == stdout.fail_frame
      IN  /\ pc \in DrainPcs
          /\ stdout.infer_failed = 1
          /\ K = frame_count
          /\ calls.pull = K
          /\ cap.pos = K
          /\ calls.infer = K
          /\ calls.report = K - 1
          /\ report.frame # K
          /\ Undrawn(display_img)
          /\ display_img.cols = frame.cols
          /\ \A k \in 1..Len(writer.frames) : writer.frames[k] < K

C5_Witness ==
    /\ loop_exit = "infer_error"
    /\ pc = "done"
    /\ stdout.fail_frame = 2
    /\ cap.total = 2
    /\ writer.frames = <<1>>

\* C6: a run that entered the loop leaves it into the one drain path, on
\* end-of-stream and on inference error alike; there the sink is closed if
\* and only if it was opened, then the model context, then the frame
\* source is released, each exactly once, and the run is over; nothing is
\* released twice.
C6_SingleDrainPath ==
    /\ NoDuplicates(released)
    /\ loop_exit # "none" =>
         /\ pc \in DrainPcs
         /\ \E n \in 0..Len(DrainOrder) : released = SubSeq(DrainOrder, 1, n)
    /\ (pc = "done" /\ loop_exit # "none") =>
         /\ released = DrainOrder
         /\ ~writer.opened /\ ~app_ctx.inited /\ ~cap.opened
    /\ (pc \in FramePcs \cup {"pull", "count"}) => loop_exit = "none"

C6_Witness ==
    /\ pc = "done"
    /\ loop_exit = "infer_error"
    /\ released = <<"writer", "model", "post_process", "cap">>

\* a step changes frame_count only from position "count", and by one
FrameCountStep ==
    \/ frame_count' = frame_count
    \/ /\ frame_count' = frame_count + 1
       /\ pc = "count"
       /\ frame.cols > 0 /\ frame.rows > 0

\* frame_count is the number of frames the source has handed out, but for
\* the frame just pulled and not yet counted; no inference or report runs
\* ahead of it
FrameCountTracks ==
    /\ frame_count = cap.pos - (IF pc = "count" THEN 1 ELSE 0)
    /\ calls.infer <= frame_count
    /\ calls.report <= frame_count
    /\ pc \in FramePcs => (frame_count >= 1 /\ frame_count = cap.pos)
    /\ ~Undrawn(display_img) => frame_count >= 1
    /\ pc \in {"args", "init_post", "init_model", "open_cap", "props",
               "open_writer"} => frame_count = 0

\* C7: frame_count starts at 0, grows by exactly 1 per non-empty frame
\* acquired and by nothing else, never shrinks, equals N after N
\* acquisitions, and a frame's inference, report and overlay run only
\* after it was counted.
C7_FrameCountCountsAcquisitions ==
    [][FrameCountStep]_vars /\ []FrameCountTracks

C7_Witness ==
    /\ pc = "infer"
    /\ frame_count = 2
    /\ calls.infer = 1

\* C8: a source that opens and is exhausted on the first pull gives a run
\* with frame_count 0, no inference, report, overlay or sink write, an
\* end-of-stream line reporting 0 frames, the full drain, and exit code 0.
C8_EmptySource ==
    ("cap" \in Range(acquired) /\ cap.total = 0) =>
      /\ frame_count = 0
      /\ calls.infer = 0 /\ calls.report = 0
      /\ report = NoReport
      /\ display_img = BlankImage
      /\ writer.frames = <<>>
      /\ pc \notin FramePcs \cup {"count"}
      /\ calls.pull >= 1 =>
            /\ calls.pull = 1
            /\ loop_exit = "eos"
            /\ stdout.eos = 1
            /\ stdout.eos_total = 0
      /\ pc = "done" =>
            /\ calls.pull = 1
            /\ released = DrainOrder
            /\ exit_code = 0

C8_Witness ==
    /\ pc = "done"
    /\ "writer" \in Range(acquired)
    /\ cap.total = 0
    /\ stdout.eos_total = 0

\* C9: every box drawn on the frame has x1, x2 in [0, cols - 1] and y1, y2
\* in [0, rows - 1] of the decoded frame, whatever the model-space box.
C9_DrawnBoxInsideFrame ==
    \A k \in 1..Len(display_img.rects) :
      LET r == display_img.rects[k]
      IN  /\ 0 <= r.x1 /\ r.x1 <= display_img.cols - 1
          /\ 0 <= r.x2 /\ r.x2 <= display_img.cols - 1
          /\ 0 <= r.y1 /\ r.y1 <= display_img.rows - 1
          /\ 0 <= r.y2 /\ r.y2 <= display_img.rows - 1

C9_Witness ==
    /\ Len(display_img.rects) = 2
    /\ od_results[2].left < 0
    /\ od_results[2].bottom > app_ctx.model_height
    /\ display_img.cols = 1920
    /\ display_img.rows = 1080
    /\ display_img.rects[2] = [x1 |-> 0, y1 |-> 0, x2 |-> 1919, y2 |-> 1079]

\* C10: a detection box equal to the full model-input extent
\* (0, 0, model_width, model_height) is drawn as
\* (0, 0, cols - 1, rows - 1).
C10_FullExtentMapsToFullFrame ==
    \A k \in 1..Len(display_img.rects) :
      od_results[k] = Box(0, 0, app_ctx.model_width, app_ctx.model_height) =>
        display_img.rects[k] =
          [x1 |-> 0, y1 |-> 0, x2 |-> display_img.cols - 1,
           y2 |-> display_img.rows - 1]

C10_Witness ==
    /\ Len(display_img.rects) = 1
    /\ od_results[1] = Box(0, 0, 41, 23)
    /\ app_ctx.model_width = 41
    /\ display_img.cols = 1 /\ display_img.rows = 7
    /\ ScaleEdge(23, scale_y) = 6
    /\ display_img.rects[1] = [x1 |-> 0, y1 |-> 0, x2 |-> 0, y2 |-> 6]

\* the 1080p frame with the 640x640 model
Is1080pWith640 ==
    /\ display_img.cols = 1920 /\ display_img.rows = 1080
    /\ frame.cols = 1920 /\ frame.rows = 1080
    /\ app_ctx.model_width = 640 /\ app_ctx.model_height = 640

\* C11: with a 1920x1080 frame and a 640x640 model, the box
\* (100,100,200,200) scales to (300,168,600,337) and is drawn unchanged by
\* the clamp; the box (630,630,645,645) is drawn with x2 = 1919 and
\* y2 = 1079.
C11_Scenario1080p ==
    Is1080pWith640 =>
      \A k \in 1..Len(display_img.rects) :
        /\ od_results[k] = Box(100, 100, 200, 200) =>
             /\ ScaleEdge(100, scale_x) = 300 /\ ScaleEdge(100, scale_y) = 168
             /\ ScaleEdge(200, scale_x) = 600 /\ ScaleEdge(200, scale_y) = 337
             /\ display_img.rects[k] =
                  [x1 |-> 300, y1 |-> 168, x2 |-> 600, y2 |-> 337]
        /\ od_results[k] = Box(630, 630, 645, 645) =>
             /\ ScaleEdge(645, scale_x) > 1919 /\ ScaleEdge(645, scale_y) > 1079
             /\ display_img.rects[k] =
                  [x1 |-> 1890, y1 |-> 1063, x2 |-> 1919, y2 |-> 1079]

C11_Witness ==
    /\ Is1080pWith640
    /\ Len(display_img.rects) = 1
    /\ od_results[1] = Box(630, 630, 645, 645)
    /\ display_img.rects[1].x2 = 1919
    /\ ScaleEdge(645, scale_x) = 1935

\* integer edges tried on the clamp besides those the mapper produces
ClampInputs == (0 - 3)..(MaxDim + 3)

\* a box with every edge clamped as in lines 131-134
ClampBox(r, cols, rows) ==
    [x1 |-> Clamp(r.x1, cols), y1 |-> Clamp(r.y1, rows),
     x2 |-> Clamp(r.x2, cols), y2 |-> Clamp(r.y2, rows)]

\* C12: clamping an already clamped box again gives the same box: every
\* drawn box is a fixed point of the clamp, and so is the clamp of any
\* integer edge, for the frame's width and height (both >= 1).
C12_ClampIdempotent ==
    (display_img.cols >= 1 /\ display_img.rows >= 1) =>
      /\ \A k \in 1..Len(display_img.rects) :
           ClampBox(display_img.rects[k], display_img.cols, display_img.rows)
             = display_img.rects[k]
      /\ \A x \in ClampInputs :
           /\ Clamp(Clamp(x, display_img.cols), display_img.cols)
                = Clamp(x, display_img.cols)
           /\ Clamp(Clamp(x, display_img.rows), display_img.rows)
                = Clamp(x, display_img.rows)

C12_Witness ==
    /\ Len(display_img.rects) = 1
    /\ display_img.cols = 3 /\ display_img.rows = 2
    /\ ScaleEdge(od_results[1].right, scale_x) > 2
    /\ ScaleEdge(od_results[1].left, scale_x) < 0
    /\ display_img.rects[1] = [x1 |-> 0, y1 |-> 0, x2 |-> 2, y2 |-> 1]

Last(q) == q[Len(q)]

\* the latest counted frame has been reported, with n detections or more
ReportedCurrentFrame == frame_count >= 1 /\ report.frame = frame_count

\* C13: a frame whose inference succeeded with zero detections gets exactly
\* one "no objects detected" line and no rectangle and no label; it is no
\* error: the frame gets its FPS overlay, is written when a sink is open,
\* and the loop goes on to the next pull.
C13_EmptyDetectionFrame ==
    /\ (ReportedCurrentFrame /\ report.count = 0) =>
         /\ report.lines = <<NoObjectsLine>>
         /\ display_img.rects = <<>>
         /\ display_img.labels = <<>>
         /\ loop_exit # "infer_error"
         /\ stdout.infer_failed = 0
         /\ pc \in {"scale", "draw", "write", "pull", "count"} \cup DrainPcs
         /\ pc \notin {"scale", "draw", "write"} =>
              /\ display_img.fps
              /\ "writer" \in Range(acquired) =>
                   (writer.frames # <<>> /\ Last(writer.frames) = frame_count)
    /\ report.count > 0 =>
         \A k \in 1..Len(report.lines) : report.lines[k].kind = "det"

C13_Witness ==
    /\ pc = "count"
    /\ frame_count = 1
    /\ report = [frame |-> 1, count |-> 0, lines |-> <<NoObjectsLine>>]
    /\ writer.frames = <<1>>
    /\ display_img.fps

\* frames 1..n in order
FirstFrames(n) == [k \in 1..n |-> k]

\* a step that adds to the sink adds the current frame, from position
\* "write" with the sink open, all boxes, labels and the FPS text drawn
SinkWriteStep ==
    writer'.frames # writer.frames =>
      /\ pc = "write"
      /\ writer.opened
      /\ writer'.frames = Append(writer.frames, frame_count)
      /\ report.frame = frame_count
      /\ Len(display_img.rects) = Len(od_results)
      /\ Len(display_img.labels) = Len(od_results)
      /\ display_img.fps
      /\ display_img' = display_img

\* the sink holds each frame whose iteration is complete once, in order,
\* if it was opened, and nothing if it was not
SinkHoldsCompletedFrames ==
    /\ "writer" \notin Range(acquired) => writer.frames = <<>>
    /\ "writer" \in Range(acquired) =>
         writer.frames =
           FirstFrames(calls.report
                         - (IF pc \in {"scale", "draw", "write"} THEN 1 ELSE 0))
    /\ (pc = "done" /\ loop_exit = "eos" /\ "writer" \in Range(acquired)) =>
         writer.frames = FirstFrames(cap.total)

\* C14: with a sink opened at startup each frame whose inference succeeded
\* is written exactly once, in acquisition order, and only after its
\* boxes and the FPS overlay are drawn, so that N frames are in the sink
\* at end-of-stream after N frames; without a sink nothing is written.
C14_OneWritePerFrame ==
    [][SinkWriteStep]_vars /\ []SinkHoldsCompletedFrames

C14_Witness ==
    /\ pc = "done"
    /\ loop_exit = "eos"
    /\ writer.frames = <<1, 2>>
    /\ Len(display_img.rects) = 2

\* every step of the current frame's iteration has been done
IterationComplete ==
    /\ calls.infer = frame_count
    /\ ReportedCurrentFrame
    /\ "mapping" \in since_start
    /\ Len(display_img.rects) = Len(od_results)
    /\ display_img.fps
    /\ writer.opened => (writer.frames # <<>> /\ Last(writer.frames) = frame_count)

\* the detector runs once more only on the current frame's preprocessed
\* buffer, before that frame is reported, mapped or drawn
InferStep ==
    calls'.infer # calls.infer =>
      /\ pc = "infer"
      /\ calls'.infer = calls.infer + 1
      /\ calls.infer = frame_count - 1
      /\ data.src_image = "resized"
      /\ heap.resized = [of |-> frame_count, writes |-> {"resize", "cvtColor"}]
      /\ report.frame # frame_count
      /\ "mapping" \notin since_start
      /\ Undrawn(display_img)

\* a frame is pulled only while the loop runs, before end-of-stream, after
\* the previous frame's iteration is complete, and it is the next frame
PullStep ==
    calls'.pull # calls.pull =>
      /\ pc = "pull"
      /\ calls'.pull = calls.pull + 1
      /\ loop_exit = "none"
      /\ stdout.eos = 0
      /\ frame_count = 0 \/ IterationComplete
      /\ data'.frame # "none" => heap'[data'.frame].of = frame_count + 1

\* one inference per counted frame; the frame in hand is the counted one;
\* after end-of-stream the pulls stay at one more than the source's frames
OneInferencePerFrame ==
    /\ calls.infer =
         frame_count - (IF pc \in {"preprocess", "infer"} THEN 1 ELSE 0)
    /\ pc \in FramePcs => heap[data.frame].of = frame_count
    /\ stdout.eos > 0 => (calls.pull = cap.total + 1 /\ pc \in DrainPcs)
    /\ calls.pull <= cap.total + 1

\* C15: the detector is invoked exactly once per acquired frame, after the
\* frame's preprocessing and before its mapping, report and drawing;
\* frames are handled one at a time in acquisition order, the next one
\* pulled only after every step of the current one, and none after
\* end-of-stream.
C15_OneFrameAtATime ==
    [][InferStep /\ PullStep]_vars /\ []OneInferencePerFrame

C15_Witness ==
    /\ pc = "report"
    /\ frame_count = 2
    /\ calls = [pull |-> 2, infer |-> 2, report |-> 1]
    /\ heap.resized.of = 2
    /\ writer.frames = <<1>>

\* C16: for a frame with detections the report has one line per detection,
\* in the detector's order, each with the detection's model-space box;
\* the rectangles drawn so far are the mapped boxes of the first
\* detections, in the same order; nothing is re-sorted, dropped or
\* duplicated.
C16_ReportAndOverlayKeepOrder ==
    (pc \in {"scale", "draw", "write"} /\ Len(od_results) > 0) =>
      /\ report.frame = frame_count
      /\ report.count = Len(od_results)
      /\ Len(report.lines) = Len(od_results)
      /\ \A k \in 1..Len(od_results) :
           report.lines[k] = [kind |-> "det", box |-> od_results[k]]
      /\ Len(display_img.rects) =
           (IF pc = "scale" THEN 0 ELSE IF pc = "draw" THEN i
            ELSE Len(od_results))
      /\ Len(display_img.labels) = Len(display_img.rects)
      /\ \A k \in 1..Len(display_img.rects) :
           display_img.rects[k] =
             MapBox(od_results[k], scale_x, scale_y, display_img.cols,
                    display_img.rows)

C16_Witness ==
    /\ pc = "write"
    /\ od_results = <<Box(630, 630, 645, 645), Box(100, 100, 200, 200)>>
    /\ report.lines[2].box = Box(100, 100, 200, 200)
    /\ display_img.rects[2] = [x1 |-> 300, y1 |-> 168, x2 |-> 600, y2 |-> 337]
    /\ display_img.rects[1].x2 = 1919

\* C17: the per-iteration timer is started after the frame was pulled and
\* found non-empty, so the time the FPS text of a frame is computed from
\* covers that frame's preprocessing, inference, mapping and rendering and
\* not its acquisition; it is read after the boxes are drawn and before
\* the FPS text and the sink write.
C17_FpsExcludesAcquisition ==
    /\ pc \in FramePcs => "acquire" \notin since_start
    /\ display_img.fps =>
         /\ "acquire" \notin fps
         /\ {"preprocess", "inference", "mapping"} \subseteq fps
         /\ Len(display_img.rects) > 0 => "rendering" \in fps

\* C18 as claimed: every label is anchored at the clamped left edge, 10
\* pixels above the clamped top edge, and that anchor is inside the
\* frame: x in [0, cols - 1] and y in [0, rows - 1].
C18_LabelAnchorInsideFrame ==
    \A k \in 1..Len(display_img.labels) :
      LET a == display_img.labels[k]
          r == display_img.rects[k]
      IN  /\ a.x = r.x1 /\ a.y = r.y1 - 10
          /\ 0 <= a.x /\ a.x <= display_img.cols - 1
          /\ 0 <= a.y /\ a.y <= display_img.rows - 1

\* C18 as amended: every label is anchored at the clamped left edge, 10
\* pixels above the clamped top edge; its x is in [0, cols - 1], its y is
\* in [-10, rows - 11], and y is inside the frame exactly when the
\* clamped top edge is at least 10.
C18_LabelAnchorTenAboveTop ==
    \A k \in 1..Len(display_img.labels) :
      LET a == display_img.labels[k]
          r == display_img.rects[k]
      IN  /\ a.x = r.x1 /\ a.y = r.y1 - 10
          /\ 0 <= a.x /\ a.x <= display_img.cols - 1
          /\ 0 - 10 <= a.y /\ a.y <= display_img.rows - 11
          /\ (0 <= a.y /\ a.y <= display_img.rows - 1) <=> r.y1 >= 10

C18_Witness ==
    /\ Len(display_img.labels) = 2
    /\ display_img.rows = 1080
    /\ display_img.rects[1].y1 = 0
    /\ display_img.labels[1] = [x |-> 0, y |-> 0 - 10]
    /\ display_img.rects[2].y1 = 168
    /\ display_img.labels[2] = [x |-> 300, y |-> 158]

\* what may be written into the display copy
OverlayWrites == {"clone", "rectangle", "putText", "fps_text"}

\* C19: within an iteration the decoded frame's buffer is written by the
\* decoder only; preprocessing fills a separate resized buffer, the one
\* handed to the detector; the display copy is a third buffer, taken
\* before preprocessing, and all rectangles, labels and the FPS text go
\* to it alone; the sink is given the display copy.
C19_OriginalFrameUntouched ==
    /\ pc \in FramePcs =>
         /\ data.frame = "decoded"
         /\ heap[data.frame] = [of |-> frame_count, writes |-> {"decode"}]
         /\ data.display_img # data.frame
         /\ heap[data.display_img].of = frame_count
         /\ heap[data.display_img].writes \subseteq OverlayWrites
         /\ display_img.rects # <<>> =>
              {"rectangle", "putText"} \subseteq heap[data.display_img].writes
         /\ display_img.fps => "fps_text" \in heap[data.display_img].writes
    /\ pc = "preprocess" =>
         /\ heap[data.display_img].writes = {"clone"}
         /\ heap.resized.of # frame_count
    /\ pc \in FramePcs \ {"preprocess"} =>
         /\ data.src_image = data.resized
         /\ data.src_image \notin {data.frame, data.display_img}
         /\ heap[data.src_image] =
              [of |-> frame_count, writes |-> {"resize", "cvtColor"}]
    /\ data.written # "none" =>
         /\ data.written = data.display_img
         /\ data.written \notin {data.frame, data.src_image}

C19_Witness ==
    /\ pc = "pull"
    /\ frame_count = 2
    /\ data.written = "copy"
    /\ Len(display_img.rects) = 1
    /\ heap = [decoded |-> [of |-> 2, writes |-> {"decode"}],
               copy |-> [of |-> 2, writes |-> OverlayWrites],
               resized |-> [of |-> 2, writes |-> {"resize", "cvtColor"}]]

\* C20: a box with left <= right and top <= bottom in model space is
\* drawn with x1 <= x2 and y1 <= y2: scaling, truncation and the clamp
\* never invert a box (they may collapse it).
C20_MappingKeepsEdgeOrder ==
    \A k \in 1..Len(display_img.rects) :
      LET b == od_results[k]
          r == display_img.rects[k]
      IN  /\ b.left <= b.right => r.x1 <= r.x2
          /\ b.top <= b.bottom => r.y1 <= r.y2

C20_Witness ==
    /\ Len(display_img.rects) = 1
    /\ od_results[1].left < od_results[1].right
    /\ od_results[1].top < od_results[1].bottom
    /\ od_results[1].left < 0
    /\ display_img.cols = 5 /\ display_img.rows = 1
    /\ display_img.rects[1].x1 < display_img.rects[1].x2
    /\ display_img.rects[1].y1 = display_img.rects[1].y2

=============================================================================
